---- MODULE Spec2Model ----
(***************************************************************************)
(* Polls application: the token-authenticated REST API of mysite/api over  *)
(* the models of mysite/polls.  The database tables are the state; every   *)
(* request handler is an action, for a requester that is a user or sends   *)
(* no token.  Four specifications share the actions:                       *)
(*   Spec          every request runs to completion before the next one    *)
(*                 starts;                                                 *)
(*   SpecConc      two vote requests, one on each server worker,           *)
(*                 interleave with each other and with the other           *)
(*                 operations between the serializer's validation queries  *)
(*                 and the INSERT;                                         *)
(*   SpecAccounts  the User factories, the user requests with their two    *)
(*                 saves, and the login;                                   *)
(*   SpecRecently  Question.was_published_recently while the clock runs.   *)
(***************************************************************************)
EXTENDS Integers, Sequences, FiniteSets, TLC

\* ------------------------------------------------------------------ bounds
\* Number of User, Question and Choice rows ever inserted, all tables
\* together (primary keys are not reused).
MaxRows == 4
\* Number of Answer rows the ledger may hold at once.
MaxAnswers == 2

\* Number of User rows ever inserted in the specification of the accounts.
MaxAccounts == 2
\* Number of days the clock covers in the specification of the publication
\* dates.
MaxDays == 2

\* Server workers that handle requests concurrently; in SpecConc each takes
\* one vote request.
Workers == {"w1", "w2"}

\* Token.key values that generate_key() may draw.
TokenKeys == {"k1", "k2"}

\* settings.REST_FRAMEWORK["PAGE_SIZE"], the system page size (scaled down).
PAGE_SIZE == 1

VARIABLES
    users,         \* polls_user rows
    questions,     \* polls_question rows
    choices,       \* polls_choice rows
    answers,       \* polls_answer rows, in insertion order (that of their ids)
    last_id,       \* the tables' AUTOINCREMENT counters
    inflight,      \* per worker: its request, between two of its steps
    response,      \* the response of the request handled last
    tokens,        \* authtoken_token rows
    now            \* timezone.now(), in seconds

vars == <<users, questions, choices, answers, last_id, inflight, response,
          tokens, now>>

\* ------------------------------------------------------------------ models
\* User.username of the n-th user: "test_%s" % n.
Username(n) == <<"test", n>>

\* Choice.choice_text of the n-th choice: "Red pill", "Blue pill" in turn.
ChoiceText(n) == IF n % 2 = 1 THEN "Red pill" ELSE "Blue pill"

RowIds(table) == {r.id : r \in table}

Row(table, pk) == CHOOSE r \in table : r.id = pk

\* request.user.id of a request that carries no token: AnonymousUser has no
\* id (None).
Anonymous == 0

\* settings.REST_FRAMEWORK: the token authenticates a request, and no
\* permission class turns a request without token away before its view runs.
Requesters == RowIds(users) \cup {Anonymous}

\* datetime.timedelta(days=1), in seconds.
OneDay == 86400

\* Mutant: the method of the tutorial, which has no upper limit.
was_published_recently_NoUpperLimit(question) ==
    question.pub_date >= now - OneDay

\* Question.was_published_recently().
was_published_recently(question) ==
    now - OneDay <= question.pub_date /\ question.pub_date <= now

\* Python's None, among the strings a caller passes.
None == "None"

\* `not value`, for a value that is a string or None.
Not(value) == value = None \/ value = ""

\* A password column that holds the text as it was supplied.
Unhashed(text) == [algorithm |-> "", plaintext |-> text]

\* django.contrib.auth.hashers.make_password(text): the encoded password
\* (its salt is left out).
make_password(text) == [algorithm |-> "pbkdf2_sha256", plaintext |-> text]

\* check_password(text, encoded): a column that is in no hasher's format
\* matches no text.
check_password(text, encoded) ==
    encoded.algorithm # "" /\ encoded.plaintext = text

\* INSERT INTO polls_user / UPDATE polls_user fails with an IntegrityError:
\* username is unique, email is not nullable.
UserIntegrityError(row) ==
    \/ \E u \in users : u.id # row.id /\ u.username = row.username
    \/ row.email = None

\* Model.save() of a User instance that has a primary key: UPDATE its row,
\* INSERT it when no row has the key.
Save(instance) == {u \in users : u.id # instance.id} \cup {instance}

\* Mutant: the Meta class declares no unique_together.
unique_together_undeclared(a, b) == FALSE

\* Answer.Meta.unique_together = ("question", "choice", "user"): rows a and b
\* may not both be stored.
unique_together(a, b) ==
    a.question = b.question /\ a.choice = b.choice /\ a.user = b.user

AnswerSet == {answers[i] : i \in 1..Len(answers)}

\* Foreign keys of an Answer row that reference no row.
DanglingReference(row) ==
    \/ row.question \notin RowIds(questions)
    \/ row.choice \notin RowIds(choices)
    \/ row.user \notin RowIds(users)

\* Mutant: the table carries no unique index.
UniqueTogetherViolated_NoIndex(row) == FALSE

\* Answer.Meta.unique_together as the database enforces it on INSERT.
UniqueTogetherViolated(row) ==
    \E a \in AnswerSet : unique_together(a, row)

\* INSERT INTO polls_answer: the statement fails with an IntegrityError.
IntegrityError(row) ==
    DanglingReference(row) \/ UniqueTogetherViolated(row)

\* Mutant: Question.created_by does not cascade.
CascadedQuestions_CreatorKept(delUsers, delQuestions) == delQuestions

\* on_delete=CASCADE, from the users, questions and choices being deleted.
CascadedQuestions(delUsers, delQuestions) ==
    delQuestions \cup {q.id : q \in {x \in questions : x.created_by \in delUsers}}

CascadedChoices(delUsers, delQuestions, delChoices) ==
    delChoices \cup
    {c.id : c \in {x \in choices :
                      x.question \in CascadedQuestions(delUsers, delQuestions)}}

\* Mutant: Answer.choice does not cascade.
AnswerSurvives_ChoiceKept(a, delUsers, delQuestions, delChoices) ==
    /\ a.user \notin delUsers
    /\ a.question \notin CascadedQuestions(delUsers, delQuestions)

AnswerSurvives(a, delUsers, delQuestions, delChoices) ==
    /\ a.user \notin delUsers
    /\ a.question \notin CascadedQuestions(delUsers, delQuestions)
    /\ a.choice \notin CascadedChoices(delUsers, delQuestions, delChoices)

\* The return value of Model.delete(): the rows the statement and its
\* cascades remove, counted by table.
Deleted(delUsers, delQuestions, delChoices) ==
    [questions |-> Cardinality(CascadedQuestions(delUsers, delQuestions)
                                  \cap RowIds(questions)),
     choices |-> Cardinality(CascadedChoices(delUsers, delQuestions, delChoices)
                                \cap RowIds(choices)),
     answers |-> Cardinality({i \in 1..Len(answers) :
                    ~AnswerSurvives(answers[i], delUsers, delQuestions, delChoices)})]

Delete(delUsers, delQuestions, delChoices) ==
    /\ users' = {u \in users : u.id \notin delUsers}
    /\ questions' = {q \in questions :
                        q.id \notin CascadedQuestions(delUsers, delQuestions)}
    /\ choices' = {c \in choices :
                      c.id \notin CascadedChoices(delUsers, delQuestions, delChoices)}
    /\ answers' = SelectSeq(answers,
                     LAMBDA a : AnswerSurvives(a, delUsers, delQuestions, delChoices))
    /\ tokens' = {t \in tokens : t.user \notin delUsers}

\* --------------------------------------------------------------- responses
NoChoice == [kind |-> "none", val |-> 0]

NoneDeleted == [questions |-> 0, choices |-> 0, answers |-> 0]

\* A response, with the request it answers.  `deleted` and `created` are not
\* part of the response: they keep what the request's Model.delete() and
\* get_or_create() returned.
Response(op, user, question, choice, status, errors, detail, data) ==
    [op |-> op, user |-> user, question |-> question, choice |-> choice,
     status |-> status, errors |-> errors, detail |-> detail, data |-> data,
     deleted |-> NoneDeleted, created |-> FALSE]

\* The response of the model-layer and CRUD operations: a status, no body.
Plain(op, status) == Response(op, 0, 0, NoChoice, status, {}, "", <<>>)

HTTP_200_OK == 200
HTTP_201_CREATED == 201
HTTP_204_NO_CONTENT == 204
HTTP_400_BAD_REQUEST == 400
HTTP_403_FORBIDDEN == 403
HTTP_404_NOT_FOUND == 404
HTTP_409_CONFLICT == 409
\* An exception no handler catches: Django answers 500.
HTTP_500_INTERNAL_SERVER_ERROR == 500

Idle == [pc |-> "idle", user |-> 0, question |-> 0, choice |-> NoChoice, status |-> 0]

AllIdle == \A w \in Workers : inflight[w] = Idle

\* The primary keys a request may name: those the table has issued, and one
\* it has not.
UserIds == 1..(last_id.user + 1)
QuestionIds == 1..(last_id.question + 1)
ChoiceIds == 1..(last_id.choice + 1)

\* ------------------------------------------------------------ users, CRUD
\* DestroyModelMixin.destroy: instance.delete(), then 204 without a body.
Destroyed(op, delUsers, delQuestions, delChoices) ==
    [Plain(op, HTTP_204_NO_CONTENT) EXCEPT
        !.deleted = Deleted(delUsers, delQuestions, delChoices)]

\* Rows inserted so far in the tables of users, questions and choices.
RowsInserted == last_id.user + last_id.question + last_id.choice

\* The outcome of a model-layer call that raised `exception`.
Raised(op, exception) == [Plain(op, 0) EXCEPT !.detail = exception]

\* The instance User.create_user(username, password, email) builds and saves,
\* or the exception it raises.
NewUser(username, password, email) ==
    LET user == [id |-> last_id.user + 1,
                 username |-> username,
                 password |-> make_password(password),
                 email |-> email,
                 is_superuser |-> FALSE,
                 is_staff |-> FALSE,
                 is_active |-> TRUE] IN
    [exception |-> IF username = <<>> \/ Not(password) THEN "ValueError"
                   ELSE IF UserIntegrityError(user) THEN "IntegrityError"
                   ELSE "",
     user |-> user]

\* User.create_user(username, password, email): a new polls_user row.
create_user(username, password, email) ==
    /\ LET new == NewUser(username, password, email) IN
       IF new.exception # ""
       THEN /\ response' = Raised("create_user", new.exception)
            /\ UNCHANGED <<users, last_id>>
       ELSE /\ users' = users \cup {new.user}
            /\ last_id' = [last_id EXCEPT !.user = new.user.id]
            /\ response' = Plain("create_user", 0)
    /\ UNCHANGED <<questions, choices, answers, inflight, tokens, now>>

\* User.create_superuser(username, password, email): it hands
\* (username, email, password) to create_user, sets the flags and saves.
create_superuser(username, password, email) ==
    /\ LET new == NewUser(username, email, password) IN
       IF username = <<>> \/ Not(password) \/ new.exception # ""
       THEN /\ response' = Raised("create_superuser",
                                  IF username = <<>> \/ Not(password)
                                  THEN "ValueError" ELSE new.exception)
            /\ UNCHANGED <<users, last_id>>
       ELSE /\ users' = users \cup {[new.user EXCEPT !.is_superuser = TRUE,
                                                     !.is_staff = TRUE]}
            /\ last_id' = [last_id EXCEPT !.user = new.user.id]
            /\ response' = Plain("create_superuser", 0)
    /\ UNCHANGED <<questions, choices, answers, inflight, tokens, now>>

\* DELETE /user/{pk}/ by `requester`.
UserDestroy(requester, pk) ==
    /\ requester \in Requesters
    /\ IF pk \in RowIds(users)
       THEN /\ Delete({pk}, {}, {})
            /\ response' = Destroyed("user_destroy", {pk}, {}, {})
       ELSE /\ UNCHANGED <<users, questions, choices, answers, tokens>>
            /\ response' = Plain("user_destroy", HTTP_404_NOT_FOUND)
    /\ UNCHANGED <<last_id, inflight, now>>

\* POST /question/ by `requester`, with created_by in the body and a pub_date
\* 30 days ahead.
QuestionCreate(requester, created_by) ==
    /\ requester \in Requesters
    /\ IF created_by \in RowIds(users)
       THEN /\ RowsInserted < MaxRows
            /\ LET pk == last_id.question + 1 IN
               /\ questions' = questions \cup
                      {[id |-> pk, created_by |-> created_by,
                        pub_date |-> now + 30 * OneDay]}
               /\ last_id' = [last_id EXCEPT !.question = pk]
            /\ response' = Plain("question_create", HTTP_201_CREATED)
       ELSE /\ UNCHANGED <<questions, last_id>>
            /\ response' = Plain("question_create", HTTP_400_BAD_REQUEST)
    /\ UNCHANGED <<users, choices, answers, inflight, tokens, now>>

\* The errors of the username and password fields of a user serializer, for
\* the row with primary key pk (0: a new row).
UserFieldErrors(pk, username, password) ==
    (IF username = <<>> THEN {<<"username", "blank">>}
     ELSE IF \E u \in users : u.id # pk /\ u.username = username
     THEN {<<"username", "unique">>}
     ELSE {})
    \cup
    (IF password = "" THEN {<<"password", "blank">>} ELSE {})

UserResponse(op, pk, status, errors) ==
    Response(op, pk, 0, NoChoice, status, errors, "", <<>>)

\* Worker w holds the User instance of a request, between its two saves.
Holding(pc, instance) == [pc |-> pc, instance |-> instance]

\* POST /user/ on worker w, up to and including super().create(validated_data)
\* of UserCreateSerializer.create: the row is inserted as it was submitted.
UserCreateInsert(w, username, password, is_active) ==
    /\ AllIdle
    /\ LET errors == UserFieldErrors(0, username, password)
           instance == [id |-> last_id.user + 1,
                        username |-> username,
                        password |-> Unhashed(password),
                        email |-> "",
                        is_superuser |-> FALSE,
                        is_staff |-> FALSE,
                        is_active |-> is_active] IN
       IF errors # {}
       THEN /\ response' = UserResponse("user_create", 0, HTTP_400_BAD_REQUEST, errors)
            /\ UNCHANGED <<users, last_id, inflight>>
       ELSE /\ users' = users \cup {instance}
            /\ last_id' = [last_id EXCEPT !.user = instance.id]
            /\ inflight' = [inflight EXCEPT ![w] = Holding("user_create", instance)]
            /\ response' = response
    /\ UNCHANGED <<questions, choices, answers, tokens, now>>

\* The rest of UserCreateSerializer.create on worker w:
\* user.set_password(user.password), is_active = True, user.save().
UserCreateSetPassword(w) ==
    /\ inflight[w].pc = "user_create"
    /\ LET user == [inflight[w].instance EXCEPT
                       !.password = make_password(@.plaintext),
                       !.is_active = TRUE] IN
       IF UserIntegrityError(user)
       THEN /\ users' = users
            /\ response' = UserResponse("user_create", user.id,
                                        HTTP_500_INTERNAL_SERVER_ERROR, {})
       ELSE /\ users' = Save(user)
            /\ response' = UserResponse("user_create", user.id, HTTP_201_CREATED, {})
    /\ inflight' = [inflight EXCEPT ![w] = Idle]
    /\ UNCHANGED <<questions, choices, answers, last_id, tokens, now>>

\* PUT /user/{pk}/ on worker w, up to and including
\* super().update(instance, validated_data) of UserUpdateSerializer.update.
UserUpdateSave(w, pk, username, password, is_active) ==
    /\ AllIdle
    /\ IF pk \notin RowIds(users)
       THEN /\ response' = UserResponse("user_update", pk, HTTP_404_NOT_FOUND, {})
            /\ UNCHANGED <<users, inflight>>
       ELSE LET errors == UserFieldErrors(pk, username, password)
                instance == [Row(users, pk) EXCEPT
                                !.username = username,
                                !.password = Unhashed(password),
                                !.is_active = is_active] IN
            IF errors # {}
            THEN /\ response' = UserResponse("user_update", pk,
                                             HTTP_400_BAD_REQUEST, errors)
                 /\ UNCHANGED <<users, inflight>>
            ELSE /\ users' = Save(instance)
                 /\ inflight' = [inflight EXCEPT ![w] = Holding("user_update", instance)]
                 /\ response' = response
    /\ UNCHANGED <<questions, choices, answers, last_id, tokens, now>>

\* The rest of UserUpdateSerializer.update on worker w:
\* instance.set_password(instance.password), instance.save().
UserUpdateSetPassword(w) ==
    /\ inflight[w].pc = "user_update"
    /\ LET user == [inflight[w].instance EXCEPT
                       !.password = make_password(@.plaintext)] IN
       IF UserIntegrityError(user)
       THEN /\ users' = users
            /\ response' = UserResponse("user_update", user.id,
                                        HTTP_500_INTERNAL_SERVER_ERROR, {})
       ELSE /\ users' = Save(user)
            /\ response' = UserResponse("user_update", user.id, HTTP_200_OK, {})
    /\ inflight' = [inflight EXCEPT ![w] = Idle]
    /\ UNCHANGED <<questions, choices, answers, last_id, tokens, now>>

\* ------------------------------------------------------------------ login
\* Mutant: a user that is not active is authenticated as well.
authenticate_Inactive(username, password) ==
    {u \in users : /\ u.username = username
                   /\ check_password(password, u.password)}

\* authenticate(username, password) of the AuthTokenSerializer: the active
\* users with that name whose password matches.
authenticate(username, password) ==
    {u \in users : /\ u.username = username
                   /\ check_password(password, u.password)
                   /\ u.is_active}

\* Mutant: every login creates a token.
get_or_create_Create(user, key) == [key |-> key, user |-> user]

\* Token.objects.get_or_create(user=user): the token of the user, a new one
\* with a generated key when the user has none.
get_or_create(user, key) ==
    IF \E t \in tokens : t.user = user
    THEN CHOOSE t \in tokens : t.user = user
    ELSE [key |-> key, user |-> user]

\* POST /login/ with username and password: CustomAuthToken.post.
login(username, password) ==
    /\ LET errors ==
               (IF username = <<>> THEN {<<"username", "blank">>} ELSE {})
               \cup (IF password = "" THEN {<<"password", "blank">>} ELSE {}) IN
       IF errors # {}
       THEN /\ response' = UserResponse("login", 0, HTTP_400_BAD_REQUEST, errors)
            /\ tokens' = tokens
       ELSE IF authenticate(username, password) = {}
       THEN /\ response' = UserResponse("login", 0, HTTP_400_BAD_REQUEST,
                                        {<<"non_field_errors", "authorization">>})
            /\ tokens' = tokens
       ELSE LET user == CHOOSE u \in authenticate(username, password) : TRUE IN
            \E key \in TokenKeys :
               LET token == get_or_create(user.id, key) IN
               /\ \A t \in tokens : t.key = key => t.user = user.id
               /\ tokens' = tokens \cup {token}
               /\ response' = [Response("login", user.id, 0, NoChoice, HTTP_200_OK,
                                        {}, "", <<token.key>>)
                                  EXCEPT !.created = token \notin tokens]
    /\ UNCHANGED <<users, questions, choices, answers, last_id, inflight, now>>

\* PUT /question/{pk}/ by `requester`, with created_by in the body: the
\* QuestionSerializer writes every field of the model.
QuestionUpdate(requester, pk, created_by) ==
    /\ requester \in Requesters
    /\ IF pk \notin RowIds(questions)
       THEN /\ questions' = questions
            /\ response' = Plain("question_update", HTTP_404_NOT_FOUND)
       ELSE IF created_by \notin RowIds(users)
       THEN /\ questions' = questions
            /\ response' = Plain("question_update", HTTP_400_BAD_REQUEST)
       ELSE /\ questions' = {IF q.id = pk THEN [q EXCEPT !.created_by = created_by]
                                          ELSE q : q \in questions}
            /\ response' = Plain("question_update", HTTP_200_OK)
    /\ UNCHANGED <<users, choices, answers, last_id, inflight, tokens, now>>

\* DELETE /question/{pk}/ by `requester`.
QuestionDestroy(requester, pk) ==
    /\ requester \in Requesters
    /\ IF pk \in RowIds(questions)
       THEN /\ Delete({}, {pk}, {})
            /\ response' = Destroyed("question_destroy", {}, {pk}, {})
       ELSE /\ UNCHANGED <<users, questions, choices, answers, tokens>>
            /\ response' = Plain("question_destroy", HTTP_404_NOT_FOUND)
    /\ UNCHANGED <<last_id, inflight, now>>

\* POST /choice/ by `requester`, with question and choice_text.
ChoiceCreate(requester, question) ==
    /\ requester \in Requesters
    /\ IF question \in RowIds(questions)
       THEN /\ RowsInserted < MaxRows
            /\ LET pk == last_id.choice + 1 IN
               /\ choices' = choices \cup
                      {[id |-> pk, question |-> question, choice_text |-> ChoiceText(pk)]}
               /\ last_id' = [last_id EXCEPT !.choice = pk]
            /\ response' = Plain("choice_create", HTTP_201_CREATED)
       ELSE /\ UNCHANGED <<choices, last_id>>
            /\ response' = Plain("choice_create", HTTP_400_BAD_REQUEST)
    /\ UNCHANGED <<users, questions, answers, inflight, tokens, now>>

\* PUT /choice/{pk}/ by `requester`, with question and choice_text.
ChoiceUpdate(requester, pk, question) ==
    /\ requester \in Requesters
    /\ IF pk \notin RowIds(choices)
       THEN /\ choices' = choices
            /\ response' = Plain("choice_update", HTTP_404_NOT_FOUND)
       ELSE IF question \notin RowIds(questions)
       THEN /\ choices' = choices
            /\ response' = Plain("choice_update", HTTP_400_BAD_REQUEST)
       ELSE /\ choices' = {IF c.id = pk THEN [c EXCEPT !.question = question]
                                        ELSE c : c \in choices}
            /\ response' = Plain("choice_update", HTTP_200_OK)
    /\ UNCHANGED <<users, questions, answers, last_id, inflight, tokens, now>>

\* DELETE /choice/{pk}/ by `requester`.
ChoiceDestroy(requester, pk) ==
    /\ requester \in Requesters
    /\ IF pk \in RowIds(choices)
       THEN /\ Delete({}, {}, {pk})
            /\ response' = Destroyed("choice_destroy", {}, {}, {pk})
       ELSE /\ UNCHANGED <<users, questions, choices, answers, tokens>>
            /\ response' = Plain("choice_destroy", HTTP_404_NOT_FOUND)
    /\ UNCHANGED <<last_id, inflight, now>>

\* ------------------------------------------------------------------- vote
\* Mutant: the viewset builds the question from the path when no row matches.
get_object_Unsaved(pk) ==
    IF pk \in RowIds(questions) THEN {q \in questions : q.id = pk}
    ELSE {[id |-> pk, created_by |-> Anonymous, pub_date |-> now]}

\* self.get_object(): the Question rows of the viewset's queryset with the
\* primary key of the path; Http404 when there is none.
get_object(pk) == {q \in questions : q.id = pk}

\* request.POST["choice"]: a pk, the empty string, some other string, or no
\* such key.
RawChoices ==
    {[kind |-> "pk", val |-> c] : c \in ChoiceIds}
        \cup {[kind |-> "empty", val |-> 0], [kind |-> "str", val |-> 0],
              [kind |-> "absent", val |-> 0]}

\* Mutant: the choice field takes any integer, without a query for the row.
FieldErrors_ChoiceNotLookedUp(data) ==
    (IF data.user = Anonymous THEN {<<"user", "null">>}
     ELSE IF data.user \in RowIds(users) THEN {}
     ELSE {<<"user", "does_not_exist">>})
    \cup
    (IF data.question \in RowIds(questions)
     THEN {} ELSE {<<"question", "does_not_exist">>})
    \cup
    (IF data.choice.kind = "empty" THEN {<<"choice", "null">>}
     ELSE IF data.choice.kind # "pk" THEN {<<"choice", "incorrect_type">>}
     ELSE {})

\* PrimaryKeyRelatedField.run_validation for the three fields of the
\* VoteSerializer, none of which may be null: the field errors of `data`.
\* A relational field reads the empty string as null.
FieldErrors(data) ==
    (IF data.user = Anonymous THEN {<<"user", "null">>}
     ELSE IF data.user \in RowIds(users) THEN {}
     ELSE {<<"user", "does_not_exist">>})
    \cup
    (IF data.question \in RowIds(questions)
     THEN {} ELSE {<<"question", "does_not_exist">>})
    \cup
    (IF data.choice.kind = "empty" THEN {<<"choice", "null">>}
     ELSE IF data.choice.kind # "pk" THEN {<<"choice", "incorrect_type">>}
     ELSE IF data.choice.val \in RowIds(choices) THEN {}
     ELSE {<<"choice", "does_not_exist">>})

validated_data(data) ==
    [question |-> data.question, choice |-> data.choice.val, user |-> data.user]

\* The UniqueTogetherValidator the ModelSerializer derives from
\* Answer.Meta.unique_together: a query on the ledger before any insert.
UniqueTogetherValidator(data) ==
    IF \E a \in AnswerSet : unique_together(a, validated_data(data))
    THEN {<<"non_field_errors", "unique">>}
    ELSE {}

\* serializer.errors after is_valid(): validators run only on valid fields.
SerializerErrors(data) ==
    IF FieldErrors(data) # {} THEN FieldErrors(data) ELSE UniqueTogetherValidator(data)

\* Mutant: the view takes the question from the submitted choice.
VoteData_QuestionOfChoice(user, question, raw) ==
    [user |-> user,
     question |-> IF raw.kind = "pk" /\ raw.val \in RowIds(choices)
                  THEN Row(choices, raw.val).question
                  ELSE question,
     choice |-> raw]

\* The data the view hands to the VoteSerializer.
VoteData(user, question, raw) ==
    [user |-> user, question |-> question, choice |-> raw]

\* Mutant: the view answers every invalid vote with 400.
ErrorStatus_AlwaysBadRequest(errors) == HTTP_400_BAD_REQUEST

\* The status of the view's error branch.
ErrorStatus(errors) ==
    IF \E e \in errors : e[1] = "non_field_errors"
    THEN HTTP_409_CONFLICT
    ELSE HTTP_400_BAD_REQUEST

VoteResponse(user, pk, raw, status, errors) ==
    Response("vote", user, pk, raw, status, errors, "", <<>>)

\* Mutant: the vote replaces the Answer the user gave to the question.
Create_Replace(row) ==
    IF IntegrityError(row)
    THEN answers' = answers
    ELSE /\ Len(answers) < MaxAnswers
         /\ answers' = Append(SelectSeq(answers,
                                  LAMBDA a : ~(a.question = row.question
                                               /\ a.user = row.user)),
                              row)

\* serializer.create(validated_data): Answer.objects.create(**validated_data).
Create(row) ==
    IF IntegrityError(row)
    THEN answers' = answers
    ELSE /\ Len(answers) < MaxAnswers
         /\ answers' = Append(answers, row)

\* The status after serializer.create(): the IntegrityError of a failed
\* INSERT is caught nowhere.
CreateStatus(row) ==
    IF IntegrityError(row) THEN HTTP_500_INTERNAL_SERVER_ERROR ELSE HTTP_201_CREATED

\* POST /question/{pk}/vote/ by `user`, run to completion.
vote(user, pk, raw) ==
    /\ user \in Requesters
    /\ AllIdle
    /\ IF get_object(pk) = {}
       THEN /\ response' = VoteResponse(user, pk, raw, HTTP_404_NOT_FOUND, {})
            /\ answers' = answers
       ELSE IF raw.kind = "absent"
       THEN /\ response' = VoteResponse(user, pk, raw, HTTP_500_INTERNAL_SERVER_ERROR, {})
            /\ answers' = answers
       ELSE LET question == CHOOSE q \in get_object(pk) : TRUE
                data == VoteData(user, question.id, raw)
                errors == SerializerErrors(data) IN
            IF errors = {}
            THEN /\ Create(validated_data(data))
                 /\ response' = VoteResponse(user, pk, raw,
                                             CreateStatus(validated_data(data)), {})
            ELSE /\ response' = VoteResponse(user, pk, raw, ErrorStatus(errors), errors)
                 /\ answers' = answers
    /\ UNCHANGED <<users, questions, choices, last_id, inflight, tokens, now>>

\* Worker w has answered its request.
Done(status) ==
    [pc |-> "done", user |-> 0, question |-> 0, choice |-> NoChoice, status |-> status]

\* The same request on worker w, up to and including serializer.is_valid().
VoteValidate(w, user, pk, raw) ==
    /\ user \in Requesters
    /\ inflight[w] = Idle
    /\ IF get_object(pk) = {}
       THEN inflight' = [inflight EXCEPT ![w] = Done(HTTP_404_NOT_FOUND)]
       ELSE IF raw.kind = "absent"
       THEN inflight' = [inflight EXCEPT ![w] = Done(HTTP_500_INTERNAL_SERVER_ERROR)]
       ELSE LET question == CHOOSE q \in get_object(pk) : TRUE
                data == VoteData(user, question.id, raw)
                errors == SerializerErrors(data) IN
            IF errors = {}
            THEN inflight' = [inflight EXCEPT ![w] =
                                 [pc |-> "validated", user |-> data.user,
                                  question |-> data.question, choice |-> data.choice,
                                  status |-> 0]]
            ELSE inflight' = [inflight EXCEPT ![w] = Done(ErrorStatus(errors))]
    /\ UNCHANGED <<users, questions, choices, answers, last_id, response, tokens, now>>

\* Worker w goes on to serializer.create() and answers the request.
VoteCreate(w) ==
    /\ inflight[w].pc = "validated"
    /\ Create(validated_data(inflight[w]))
    /\ inflight' = [inflight EXCEPT ![w] = Done(CreateStatus(validated_data(inflight[w])))]
    /\ UNCHANGED <<users, questions, choices, last_id, response, tokens, now>>

\* Choice.get_votes() of the choice with primary key pk.
get_votes(pk) ==
    /\ AllIdle
    /\ pk \in RowIds(choices)
    /\ response' = Raised("get_votes", "NotImplementedError")
    /\ UNCHANGED <<users, questions, choices, answers, last_id, inflight, tokens, now>>

\* ---------------------------------------------------------------- results
\* Mutant: the query filters on the creator alone.
FilterAnswers_ByCreatorOnly(user_id, question_id) ==
    SelectSeq(answers,
              LAMBDA a : \E q \in questions :
                            q.id = a.question /\ q.created_by = user_id)

\* Answer.objects.filter(question__created_by=user_id, question=question_id):
\* the rows the query selects, as the table holds them.
FilterAnswers(user_id, question_id) ==
    SelectSeq(answers,
              LAMBDA a : /\ a.question = question_id
                         /\ \E q \in questions :
                               q.id = a.question /\ q.created_by = user_id)

\* The orders in which the database may return the rows of a query that has
\* no ORDER BY (Answer has no Meta.ordering, the view calls no order_by).
QueryOrders(rows) ==
    IF rows = <<>> THEN {<<>>}
    ELSE {[i \in 1..Len(rows) |-> rows[p[i]]] : p \in Permutations(1..Len(rows))}

UserAnswerResultSerializer(u) == [id |-> u.id, username |-> u.username]

ChoiceAnswerResultSerializer(c) == [id |-> c.id, choice_text |-> c.choice_text]

AnswerResultListSerializer(a) ==
    [user |-> UserAnswerResultSerializer(Row(users, a.user)),
     choice |-> ChoiceAnswerResultSerializer(Row(choices, a.choice))]

\* Mutant: the listing is cut to the first page, as the paginated
\* listings of the API are.
SerializeMany_FirstPage(rows) ==
    [i \in 1..(IF Len(rows) < PAGE_SIZE THEN Len(rows) ELSE PAGE_SIZE) |->
        AnswerResultListSerializer(rows[i])]

\* serializer.data of AnswerResultListSerializer(rows, many=True).
SerializeMany(rows) ==
    [i \in 1..Len(rows) |-> AnswerResultListSerializer(rows[i])]

OnlyCreator == "Only the creator of a question can obtain its answers"

\* Mutant: the view compares the requester with the question's own id.
NotCreator_QuestionId(user, question) == user # question.id

\* Mutant: the view compares the ids only for a requester that has one.
NotCreator_Authenticated(user, question) ==
    user # Anonymous /\ user # question.created_by

\* The view's ownership test on the fetched question.
NotCreator(user, question) == user # question.created_by

\* Mutant: the view goes on with an unsaved Question when no row matches.
get_object_or_404_Unsaved(question_id) ==
    IF question_id \in RowIds(questions) THEN {q \in questions : q.id = question_id}
    ELSE {[id |-> question_id, created_by |-> Anonymous, pub_date |-> now]}

\* get_object_or_404(Question, pk=question_id): the rows that match; Http404
\* when there is none.
get_object_or_404(question_id) == {q \in questions : q.id = question_id}

\* GET /question/{question_id}/results/ by `user`.
get_question_answers(user, question_id) ==
    /\ user \in Requesters
    /\ AllIdle
    /\ IF get_object_or_404(question_id) = {}
       THEN response' = Response("results", user, question_id, NoChoice,
                                 HTTP_404_NOT_FOUND, {}, "Not found.", <<>>)
       ELSE LET question == CHOOSE q \in get_object_or_404(question_id) : TRUE IN
            IF NotCreator(user, question)
            THEN response' = Response("results", user, question_id, NoChoice,
                                      HTTP_403_FORBIDDEN, {}, OnlyCreator, <<>>)
            ELSE \E rows \in QueryOrders(FilterAnswers(user, question.id)) :
                    response' = Response("results", user, question_id, NoChoice,
                                         HTTP_200_OK, {}, "", SerializeMany(rows))
    /\ UNCHANGED <<users, questions, choices, answers, last_id, inflight, tokens, now>>

\* ----------------------------------------------------------- specifications
Init ==
    /\ users = {}
    /\ questions = {}
    /\ choices = {}
    /\ answers = <<>>
    /\ last_id = [user |-> 0, question |-> 0, choice |-> 0]
    /\ inflight = [w \in Workers |-> Idle]
    /\ response = Plain("none", 0)
    /\ tokens = {}
    /\ now = 0

\* The model-layer and CRUD operations, common to both specifications.
Crud ==
    \/ /\ RowsInserted < MaxRows
       /\ create_user(Username(last_id.user + 1), "1234", "")
    \/ \E requester \in Requesters, pk \in UserIds : UserDestroy(requester, pk)
    \/ \E requester \in Requesters, created_by \in UserIds :
          QuestionCreate(requester, created_by)
    \/ \E requester \in Requesters, pk \in QuestionIds, created_by \in UserIds :
          QuestionUpdate(requester, pk, created_by)
    \/ \E requester \in Requesters, pk \in QuestionIds : QuestionDestroy(requester, pk)
    \/ \E requester \in Requesters, question \in QuestionIds :
          ChoiceCreate(requester, question)
    \/ \E requester \in Requesters, pk \in ChoiceIds, question \in QuestionIds :
          ChoiceUpdate(requester, pk, question)
    \/ \E requester \in Requesters, pk \in ChoiceIds : ChoiceDestroy(requester, pk)

Next ==
    \/ Crud
    \/ \E pk \in ChoiceIds : get_votes(pk)
    \/ \E user \in Requesters, pk \in QuestionIds, raw \in RawChoices : vote(user, pk, raw)
    \/ \E user \in Requesters, question_id \in QuestionIds :
          get_question_answers(user, question_id)

Spec == Init /\ [][Next]_vars

NextConc ==
    \/ Crud
    \/ \E w \in Workers, user \in Requesters, pk \in QuestionIds, raw \in RawChoices :
          VoteValidate(w, user, pk, raw)
    \/ \E w \in Workers : VoteCreate(w)

SpecConc == Init /\ [][NextConc]_vars

\* The instants of the clock, and the publication dates: the days, each with
\* the second before and the second after, and a date 30 days ahead.
Instants == {t \in {d * OneDay + s : d \in 0..MaxDays, s \in {-1, 0, 1}} : t >= 0}
PubDates == Instants \cup {30 * OneDay}

\* A question of the basic user, published at one of the dates.
InitRecently ==
    /\ users = {[id |-> 1, username |-> Username(1),
                 password |-> make_password("1234"), email |-> "",
                 is_superuser |-> FALSE, is_staff |-> FALSE, is_active |-> TRUE]}
    /\ \E pub_date \in PubDates :
          questions = {[id |-> 1, created_by |-> 1, pub_date |-> pub_date]}
    /\ choices = {}
    /\ answers = <<>>
    /\ last_id = [user |-> 1, question |-> 1, choice |-> 0]
    /\ inflight = [w \in Workers |-> Idle]
    /\ response = Plain("none", 0)
    /\ tokens = {}
    /\ now = 0

\* Time passes.
Tick(t) ==
    /\ t > now
    /\ now' = t
    /\ response' = Plain("tick", 0)
    /\ UNCHANGED <<users, questions, choices, answers, last_id, inflight, tokens>>

\* A call of was_published_recently() on the question with primary key pk.
WasPublishedRecently(pk) ==
    /\ pk \in RowIds(questions)
    /\ response' = Response("was_published_recently", 0, pk, NoChoice, 0, {}, "",
                            <<was_published_recently(Row(questions, pk))>>)
    /\ UNCHANGED <<users, questions, choices, answers, last_id, inflight, tokens, now>>

NextRecently ==
    \/ \E t \in Instants : Tick(t)
    \/ \E pk \in QuestionIds : WasPublishedRecently(pk)

SpecRecently == InitRecently /\ [][NextRecently]_vars

\* The arguments and request bodies of the specification of the accounts.
Usernames == {<<>>, Username(1), Username(2)}
Passwords == {"", "1234"}
Emails == {None, "test@gmail.com"}

\* The passwords of the login requests: a user's, none, and another text.
LoginPasswords == Passwords \cup (Emails \ {None})

\* The worker that handles the user requests of the accounts.
UserWorker == CHOOSE w \in Workers : TRUE

\* The accounts: the model-layer factories, the user resource and the login;
\* one user request at a time is between its two saves, while the other
\* operations go on.  A PUT keeps the username of the row.
NextAccounts ==
    \/ \E username \in Usernames, password \in Passwords, email \in Emails :
          /\ last_id.user < MaxAccounts
          /\ create_user(username, password, email)
    \/ \E username \in Usernames, password \in Passwords, email \in Emails :
          /\ last_id.user < MaxAccounts
          /\ create_superuser(username, password, email)
    \/ \E username \in Usernames, password \in Passwords, is_active \in BOOLEAN :
          /\ last_id.user < MaxAccounts
          /\ UserCreateInsert(UserWorker, username, password, is_active)
    \/ UserCreateSetPassword(UserWorker)
    \/ \E pk \in UserIds, password \in Passwords, is_active \in BOOLEAN :
          \E username \in {<<>>} \cup {u.username : u \in {x \in users : x.id = pk}} :
             UserUpdateSave(UserWorker, pk, username, password, is_active)
    \/ UserUpdateSetPassword(UserWorker)
    \/ \E requester \in Requesters, pk \in UserIds : UserDestroy(requester, pk)
    \/ \E username \in Usernames, password \in LoginPasswords :
          login(username, password)

SpecAccounts == Init /\ [][NextAccounts]_vars

\* ------------------------------------------------------------------ claims
\* Rows of the ledger at positions i and j carry the same triple.
SameTriple(i, j) ==
    /\ answers[i].question = answers[j].question
    /\ answers[i].choice = answers[j].choice
    /\ answers[i].user = answers[j].user

\* The triple of the vote request that `r` answers is in the ledger.
RequestStored(r) ==
    /\ r.choice.kind = "pk"
    /\ \E i \in 1..Len(answers) :
          /\ answers[i].question = r.question
          /\ answers[i].choice = r.choice.val
          /\ answers[i].user = r.user

\* The Answer row a vote request asks for.
RequestedRow(r) ==
    [question |-> r.question, choice |-> r.choice.val, user |-> r.user]

\* C1: after any sequence of votes, creations and deletions the ledger holds
\* no two Answer rows with the same (question, choice, user) triple.
C1_UniqueTriple ==
    \A i, j \in 1..Len(answers) : SameTriple(i, j) => i = j

\* C1 witness: a ledger of several rows has just turned a repeated vote down.
C1_Witness ==
    /\ Len(answers) >= 2
    /\ response.op = "vote"
    /\ response.status = 409
    /\ RequestStored(response)

\* C2: a vote of an authenticated user for an existing question and an
\* existing choice whose triple is not in the ledger returns 201 and appends
\* exactly one row: the path question, the submitted choice, the requester.
C2_VoteCreates ==
    [][(/\ response'.op = "vote"
        /\ response'.user \in RowIds(users)
        /\ response'.question \in RowIds(questions)
        /\ response'.choice.kind = "pk"
        /\ response'.choice.val \in RowIds(choices)
        /\ ~RequestStored(response'))
       => /\ response'.status = 201
          /\ answers' = Append(answers, RequestedRow(response'))]_vars

\* C2 witness: a vote has returned 201 and its row is the last of the ledger.
C2_Witness ==
    /\ response.op = "vote"
    /\ response.status = 201
    /\ Len(answers) >= 1
    /\ answers[Len(answers)] = RequestedRow(response)

\* C3: a vote whose triple is in the ledger returns 409 with a
\* non_field_errors body and leaves the ledger as it was; the same vote sent
\* right after its 201 returns 409 and the ledger holds one row of the triple.
C3_DuplicateConflict ==
    [][/\ (response'.op = "vote" /\ RequestStored(response'))
          => /\ response'.status = 409
             /\ \E e \in response'.errors : e[1] = "non_field_errors"
             /\ answers' = answers
       /\ (/\ response.op = "vote" /\ response.status = 201
           /\ response'.op = "vote"
           /\ response'.user = response.user
           /\ response'.question = response.question
           /\ response'.choice = response.choice)
          => /\ response'.status = 409
             /\ Cardinality({i \in 1..Len(answers') :
                                answers'[i] = RequestedRow(response')}) = 1]_vars

\* C3 witness: the vote answered 409 repeats a stored triple.
C3_Witness ==
    /\ response.op = "vote"
    /\ response.status = 409
    /\ response.errors = {<<"non_field_errors", "unique">>}
    /\ RequestStored(response)

\* C4 (as claimed): a user holds at most one Answer per question, whatever
\* the choice.
C4_OneAnswerPerQuestion ==
    \A i, j \in 1..Len(answers) :
        (answers[i].question = answers[j].question /\ answers[i].user = answers[j].user)
            => i = j

\* Worker w is between validation and insert, for a triple already stored.
Raced(w) ==
    /\ inflight[w].pc = "validated"
    /\ \E i \in 1..Len(answers) :
          /\ answers[i].question = inflight[w].question
          /\ answers[i].choice = inflight[w].choice.val
          /\ answers[i].user = inflight[w].user

\* C5: of two concurrent votes for one triple at most one inserts a row:
\* the insert step of a worker whose triple is stored adds nothing, and no
\* insert step leaves two rows of its triple.
C5_OneRacingInsert ==
    [][\A w \in Workers :
          (inflight[w].pc = "validated" /\ inflight'[w].pc = "done")
          => /\ Raced(w) => answers' = answers
             /\ Cardinality({i \in 1..Len(answers') :
                   /\ answers'[i].question = inflight[w].question
                   /\ answers'[i].choice = inflight[w].choice.val
                   /\ answers'[i].user = inflight[w].user}) <= 1]_vars

\* C5 witness: both votes passed validation, one has inserted, the other is
\* about to.
C5_Witness ==
    \E w, v \in Workers :
        /\ w # v
        /\ Raced(w)
        /\ inflight[v].pc = "done"
        /\ inflight[v].status = 201

\* C6 (as claimed): the racing vote that does not insert its row answers 409.
C6_LoserGetsConflict ==
    [][\A w \in Workers :
          (Raced(w) /\ inflight'[w].pc = "done")
          => inflight'[w].status = 409]_vars

\* The question the results response `r` is about, if it exists.
ResultsQuestion(r) == {q \in questions : q.id = r.question}

\* The positions of the ledger that hold an Answer of question q.
AnswersOf(q) == {i \in 1..Len(answers) : answers[i].question = q}

\* The entry of the results listing for Answer row a.
Entry(a) ==
    [user |-> [id |-> a.user,
               username |-> (CHOOSE u \in users : u.id = a.user).username],
     choice |-> [id |-> a.choice,
                 choice_text |-> (CHOOSE c \in choices : c.id = a.choice).choice_text]]

\* C7: for an existing question and a requester who is not its creator the
\* results query returns 403 with the fixed message and no answer data.
C7_NonCreatorForbidden ==
    (response.op = "results"
     /\ \E q \in ResultsQuestion(response) : q.created_by # response.user)
    => /\ response.status = 403
       /\ response.detail = "Only the creator of a question can obtain its answers"
       /\ response.data = <<>>

\* C7 witness: a non-creator was refused the results of an answered question.
C7_Witness ==
    /\ response.op = "results"
    /\ response.status = 403
    /\ AnswersOf(response.question) # {}

\* C8: for the creator the results query returns 200 with exactly one entry
\* per Answer row of the question and none of another question (the empty
\* list when the question has no answers).
C8_CreatorGetsAllEntries ==
    (response.op = "results"
     /\ \E q \in ResultsQuestion(response) : q.created_by = response.user)
    => /\ response.status = 200
       /\ Len(response.data) = Cardinality(AnswersOf(response.question))
       /\ \E f \in [1..Len(response.data) -> AnswersOf(response.question)] :
             /\ \A k, l \in 1..Len(response.data) : f[k] = f[l] => k = l
             /\ \A k \in 1..Len(response.data) :
                   response.data[k] = Entry(answers[f[k]])

\* C8 witness: the creator got a non-empty listing while the ledger also
\* holds an Answer of another question.
C8_Witness ==
    /\ response.op = "results"
    /\ response.status = 200
    /\ Len(response.data) >= 1
    /\ \E i \in 1..Len(answers) : answers[i].question # response.question

\* C9 (as claimed): the entries of a successful results response are in the
\* order in which the Answer rows of the question were inserted.
C9_InsertionOrder ==
    (response.op = "results" /\ response.status = 200)
    => LET rows == SelectSeq(answers, LAMBDA a : a.question = response.question) IN
       /\ Len(response.data) = Len(rows)
       /\ \A k \in 1..Len(rows) : response.data[k] = Entry(rows[k])

\* C10: a successful results response holds all Answers of the question,
\* also when they are more than the page size: the listing is not paginated.
C10_NotPaginated ==
    (response.op = "results" /\ response.status = 200)
    => Len(response.data) = Cardinality(AnswersOf(response.question))

\* C10 witness: a listing longer than a page was returned.
C10_Witness ==
    /\ response.op = "results"
    /\ response.status = 200
    /\ Len(response.data) > PAGE_SIZE

\* C11: a results query for a question id that matches no Question returns
\* 404 "Not found." and never 403: the lookup comes before the ownership test.
C11_ResultsNotFound ==
    (response.op = "results" /\ response.question \notin RowIds(questions))
    => /\ response.status = 404
       /\ response.status # 403
       /\ response.detail = "Not found."
       /\ response.data = <<>>

\* C11 witness: a user who created none of the existing questions asked for
\* the results of a question that does not exist, and got 404.
C11_Witness ==
    /\ response.op = "results"
    /\ response.status = 404
    /\ response.user \in RowIds(users)
    /\ questions # {}
    /\ \A q \in questions : q.created_by # response.user

\* C12: a vote on a question id that matches no Question returns 404 without
\* field errors, whatever the choice (a pk, malformed or missing), and adds
\* no Answer row.
C12_VoteNotFound ==
    [][(response'.op = "vote" /\ response'.question \notin RowIds(questions))
       => /\ response'.status = 404
          /\ response'.errors = {}
          /\ answers' = answers]_vars

\* C12 witness: a vote without choice field on a missing question got 404
\* while the ledger holds rows.
C12_Witness ==
    /\ response.op = "vote"
    /\ response.status = 404
    /\ response.choice.kind = "absent"
    /\ Len(answers) >= 1

BadChoice(r) ==
    /\ r.op = "vote"
    /\ r.question \in RowIds(questions)
    /\ r.choice.kind # "absent"
    /\ ~(r.choice.kind = "pk" /\ r.choice.val \in RowIds(choices))

\* C14 (as claimed): a user's vote on an existing question whose choice value
\* is not an integer returns 400 with the choice error "incorrect type", one
\* whose integer matches no Choice returns 400 with the choice error "does
\* not exist"; neither adds an Answer row.
C14_IncorrectTypeOrDoesNotExist ==
    [][(BadChoice(response') /\ response'.user \in RowIds(users))
       => /\ response'.status = 400
          /\ answers' = answers
          /\ IF response'.choice.kind = "pk"
             THEN <<"choice", "does_not_exist">> \in response'.errors
             ELSE <<"choice", "incorrect_type">> \in response'.errors]_vars

\* C14 (amended): such a vote returns 400 with an error of the choice field
\* and adds no Answer row; the error is "null" for the empty string,
\* "incorrect type" for any other value that is not an integer, and "does
\* not exist" for an integer that matches no Choice.
C14_ChoiceRejected ==
    [][BadChoice(response')
       => /\ response'.status = 400
          /\ answers' = answers
          /\ \A e \in response'.errors : e[1] \in {"choice", "user"}
          /\ CASE response'.choice.kind = "pk"
                    -> <<"choice", "does_not_exist">> \in response'.errors
               [] response'.choice.kind = "empty"
                    -> <<"choice", "null">> \in response'.errors
               [] OTHER
                    -> <<"choice", "incorrect_type">> \in response'.errors]_vars

\* C14 witness: a user's vote with a pk that matches no Choice was answered
\* 400 with the one error of the choice field, while other choices exist.
C14_Witness ==
    /\ BadChoice(response)
    /\ response.user \in RowIds(users)
    /\ response.choice.kind = "pk"
    /\ choices # {}
    /\ response.status = 400
    /\ response.errors = {<<"choice", "does_not_exist">>}

\* C15 (as claimed): a user's vote on an existing question without choice
\* field returns 400 with an error of the choice field and adds no Answer row.
C15_MissingChoiceBadRequest ==
    [][(/\ response'.op = "vote"
        /\ response'.user \in RowIds(users)
        /\ response'.question \in RowIds(questions)
        /\ response'.choice.kind = "absent")
       => /\ response'.status = 400
          /\ \E e \in response'.errors : e[1] = "choice"
          /\ answers' = answers]_vars

\* C16 (as claimed): a user's vote on an existing question that fails
\* returns 409 when its triple is in the ledger and 400 in every other case.
C16_ConflictOnlyForUniqueness ==
    [][(/\ response'.op = "vote"
        /\ response'.user \in RowIds(users)
        /\ response'.question \in RowIds(questions)
        /\ response'.status # 201)
       => IF RequestStored(response')
          THEN response'.status = 409
          ELSE response'.status = 400]_vars

\* C17: a vote without token never returns 201 and adds no Answer row, a
\* results query without token never returns 200 or answer data, and no
\* Answer row has an absent user.
C17_NoTokenNeverSucceeds ==
    [][/\ (response'.op = "vote" /\ response'.user = Anonymous)
          => /\ response'.status # 201
             /\ answers' = answers
       /\ (response'.op = "results" /\ response'.user = Anonymous)
          => /\ response'.status # 200
             /\ response'.data = <<>>
       /\ \A i \in 1..Len(answers') : answers'[i].user # Anonymous]_vars

\* C17 witness: a vote without token for an existing choice of an existing
\* question was refused for its user.
C17_Witness ==
    /\ response.op = "vote"
    /\ response.user = Anonymous
    /\ response.question \in RowIds(questions)
    /\ response.choice.kind = "pk"
    /\ response.choice.val \in RowIds(choices)
    /\ response.status = 400
    /\ response.errors = {<<"user", "null">>}

\* C18: every Answer row references a Question, a Choice and a User that
\* exist.
C18_AnswersReferenceRows ==
    \A i \in 1..Len(answers) :
        /\ answers[i].question \in RowIds(questions)
        /\ answers[i].choice \in RowIds(choices)
        /\ answers[i].user \in RowIds(users)

\* C18 witness: the deletion of a choice took Answers with it and left
\* others.
C18_Witness ==
    /\ response.op = "choice_destroy"
    /\ response.deleted.answers >= 1
    /\ Len(answers) >= 1

\* C19: every Choice references a Question that exists and every Question a
\* creator that exists.
C19_ChoicesAndQuestionsReferenceRows ==
    /\ \A c \in choices : c.question \in RowIds(questions)
    /\ \A q \in questions : q.created_by \in RowIds(users)

\* C19 witness: the deletion of a user took a question, a choice and an
\* Answer with it and left other users.
C19_Witness ==
    /\ response.op = "user_destroy"
    /\ response.deleted.questions >= 1
    /\ response.deleted.choices >= 1
    /\ response.deleted.answers >= 1
    /\ users # {}

\* After the step, Answer row a references a row that is no longer there.
Gone(a) ==
    \/ a.question \notin RowIds(questions')
    \/ a.choice \notin RowIds(choices')
    \/ a.user \notin RowIds(users')

\* C20: in every step the ledger keeps, unchanged and in place, exactly the
\* rows whose question, choice and user still exist; the only other change
\* is the one row a vote answered 201 appends.
C20_AnswersOnlyCascade ==
    [][LET kept == SelectSeq(answers, LAMBDA a : ~Gone(a)) IN
       /\ answers' = kept \/ answers' = Append(kept, RequestedRow(response'))
       /\ answers' # kept
          => /\ response'.op = "vote"
             /\ response'.status = 201
             /\ kept = answers]_vars

\* C20 witness: the deletion of a question took its Answers with it and
\* left those of another question.
C20_Witness ==
    /\ response.op = "question_destroy"
    /\ response.deleted.answers >= 1
    /\ Len(answers) >= 1

\* C21 (as claimed): a DELETE of a question by a user who is not its creator
\* does not remove the question.
C21_OnlyCreatorDestroys ==
    [][\A requester \in RowIds(users), pk \in RowIds(questions) :
          (/\ QuestionDestroy(requester, pk)
           /\ Row(questions, pk).created_by # requester)
          => pk \in RowIds(questions')]_vars

\* C22 (as claimed): in every persisted state, also between the two saves of
\* a user request, the stored password of every user is a hash and never the
\* text that was supplied.
C22_PasswordsHashed ==
    \A u \in users : u.password.algorithm # ""

\* The users whose name is `username` and whose stored password is the hash
\* of `password`.
Matching(username, password) ==
    {u \in users :
        /\ u.username = username
        /\ u.password = [algorithm |-> "pbkdf2_sha256", plaintext |-> password]}

\* The login response `r` carries the token of user u, which is in `table`.
TokenOf(r, u, table) ==
    /\ r.status = 200
    /\ r.user = u.id
    /\ Len(r.data) = 1
    /\ [key |-> r.data[1], user |-> u.id] \in table

\* C23 (as claimed): a login with the username and password of an existing
\* user returns 200 with the user's id and a token of that user; any other
\* login returns 400 and issues no token.
C23_LoginOfExistingUser ==
    [][response'.op = "login"
       => \A username \in Usernames, password \in LoginPasswords :
             login(username, password)
             => IF Matching(username, password) # {}
                THEN \E u \in Matching(username, password) :
                        TokenOf(response', u, tokens')
                ELSE response'.status = 400 /\ tokens' = tokens]_vars

\* C23 (amended): a login with the username and password of an existing
\* user that is active returns 200 with the user's id and a token of that
\* user; any other login returns 400 and issues no token.
C23_LoginOfActiveUser ==
    [][response'.op = "login"
       => \A username \in Usernames, password \in LoginPasswords :
             login(username, password)
             => IF \E u \in Matching(username, password) : u.is_active
                THEN \E u \in Matching(username, password) :
                        TokenOf(response', u, tokens')
                ELSE response'.status = 400 /\ tokens' = tokens]_vars

\* C23 witness: a login was answered with the token of its user while
\* another user is not active.
C23_Witness ==
    /\ response.op = "login"
    /\ \E u \in users : TokenOf(response, u, tokens)
    /\ \E u \in users : ~u.is_active

\* C24 (as claimed): reading the vote tally of a choice gives the number of
\* Answer rows that reference the choice.
C24_TallyCountsAnswers ==
    [][\A pk \in RowIds(choices) :
          get_votes(pk)
          => /\ response'.detail = ""
             /\ response'.data =
                   <<Cardinality({i \in 1..Len(answers) : answers[i].choice = pk})>>]_vars

\* C25: was_published_recently() is False for a pub_date in the future and
\* for a pub_date more than one day in the past, and True for every other.
C25_RecentlyWithinOneDay ==
    response.op = "was_published_recently"
    => LET pub_date == (CHOOSE q \in questions : q.id = response.question).pub_date IN
       response.data = <<~(pub_date > now) /\ ~(now - pub_date > 86400)>>

\* C25 witness: the method returned True for a question published exactly
\* one day ago.
C25_Witness ==
    /\ response.op = "was_published_recently"
    /\ response.data = <<TRUE>>
    /\ \E q \in questions : q.id = response.question /\ now - q.pub_date = 86400

\* C26: a vote changes no User, Question, Choice or Token row; answered 400,
\* 404 or 409 it leaves the ledger as it was, answered 201 it appends its one
\* row to it and changes no other.
C26_VoteFrame ==
    [][response'.op = "vote"
       => /\ users' = users
          /\ questions' = questions
          /\ choices' = choices
          /\ tokens' = tokens
          /\ response'.status \in {400, 404, 409} => answers' = answers
          /\ response'.status = 201
             => /\ Len(answers') = Len(answers) + 1
                /\ \A i \in 1..Len(answers) : answers'[i] = answers[i]
                /\ answers'[Len(answers')] = RequestedRow(response')]_vars

\* C26 witness: a vote answered 201 added a row to a ledger that held one,
\* while the question has several choices.
C26_Witness ==
    /\ response.op = "vote"
    /\ response.status = 201
    /\ Len(answers) >= 2
    /\ Cardinality({c \in choices : c.question = response.question}) >= 2

\* C27 (as claimed): a vote on a question with a choice of another question
\* is refused and adds no Answer row: a row the vote adds has a choice of the
\* answered question.
C27_ChoiceOfAnsweredQuestion ==
    [][(/\ response'.op = "vote"
        /\ response'.choice.kind = "pk"
        /\ \E c \in choices : c.id = response'.choice.val
                             /\ c.question # response'.question)
       => /\ response'.status # 201
          /\ answers' = answers]_vars

\* C28 (as claimed): no operation changes the created_by of a question.
C28_CreatorFixed ==
    [][\A q \in questions : \A r \in questions' :
          r.id = q.id => r.created_by = q.created_by]_vars

\* C29 (as claimed): create_superuser with a username that is free and a
\* password, with or without email, persists a user with that username, the
\* hash of that password, the email if one is given, and both flags set.
C29_SuperuserAsCreateUser ==
    [][\A username \in Usernames, password \in Passwords, email \in Emails :
          (/\ create_superuser(username, password, email)
           /\ username # <<>>
           /\ password # ""
           /\ \A u \in users : u.username # username)
          => \E u \in users' :
                /\ u \notin users
                /\ u.username = username
                /\ u.password = [algorithm |-> "pbkdf2_sha256", plaintext |-> password]
                /\ email # None => u.email = email
                /\ u.is_superuser
                /\ u.is_staff]_vars

\* C30: no user ever holds two tokens, and a successful login of a user that
\* holds a token returns that token and creates none.
C30_LoginIdempotent ==
    [][/\ \A t1, t2 \in tokens' : t1.user = t2.user => t1 = t2
       /\ (response'.op = "login" /\ response'.status = 200)
          => \A t \in tokens :
                t.user = response'.user
                => response'.data = <<t.key>> /\ tokens' = tokens]_vars

\* C30 witness: a login returned the token its user already held, while
\* another user holds a token too.
C30_Witness ==
    /\ response.op = "login"
    /\ response.status = 200
    /\ ~response.created
    /\ \E t \in tokens : t.user = response.user /\ response.data = <<t.key>>
    /\ \E t \in tokens : t.user # response.user

====
